---------------------------- MODULE Spec2Model ----------------------------
(***************************************************************************)
(* Model of the lambda-http adapter: decoding of the three trigger event   *)
(* shapes (request.rs), normalization into an http::Request<Body>          *)
(* (request.rs), the handler adapter and its TransformResponse future      *)
(* (lib.rs) and the serialization of the response (response.rs); of the    *)
(* stateful example handler (examples/stateful-http.rs) and of the         *)
(* #[lambda] attribute macro (lambda-attributes).                          *)
(*                                                                         *)
(* Variables.                                                              *)
(*   inv         the invocations, one record for every slot                *)
(*   counter     AppState::counter of the stateful example                 *)
(*   expansion   one use of #[lambda]: the item, the arguments, the output *)
(*                                                                         *)
(* Conventions.                                                            *)
(*   Option<T>   a sequence of length at most one: <<>> is None, <<x>> is  *)
(*               Some(x).                                                  *)
(*   String      a sequence of tokens; concatenation is \o, "" is <<>>.    *)
(*               A base64 text is written one character per token.         *)
(*   HeaderMap   a sequence of entries [name, values] in insertion order   *)
(*               of the names, each with its values in insertion order.    *)
(***************************************************************************)
EXTENDS Integers, Sequences, FiniteSets, TLC

VARIABLES inv, counter, expansion

vars == <<inv, counter, expansion>>

-----------------------------------------------------------------------------
(* Bounds of the model. *)

\* Number of invocations that may be in flight together.
MaxInvocations == 2

\* Number of times a handler future may answer Pending before it is Ready.
MaxPending == 2

-----------------------------------------------------------------------------
(* Option and String helpers. *)

None == <<>>

Some(x) == <<x>>

IsSome(o) == Len(o) = 1

\* Option::unwrap_or / unwrap_or_default
UnwrapOr(o, d) == IF Len(o) = 1 THEN o[1] ELSE d

RECURSIVE Join(_, _)
\* [String]::join(sep)
Join(strs, sep) ==
    IF Len(strs) = 0 THEN <<>>
    ELSE IF Len(strs) = 1 THEN strs[1]
    ELSE strs[1] \o <<sep>> \o Join(Tail(strs), sep)

RECURSIVE Digits(_)
\* format!("{}", n) of an unsigned integer: its decimal digits
Digits(n) ==
    LET d == <<"0", "1", "2", "3", "4", "5", "6", "7", "8", "9">>
    IN  IF n < 10 THEN <<d[n + 1]>> ELSE Digits(n \div 10) \o <<d[(n % 10) + 1]>>

-----------------------------------------------------------------------------
(* http::HeaderMap, as far as the adapter uses it. *)

EmptyHeaders == <<>>

HeaderNames(h) == { h[k].name : k \in 1..Len(h) }

HeaderIndex(h, name) == CHOOSE k \in 1..Len(h) : h[k].name = name

\* HeaderMap::get_all
HeaderGetAll(h, name) ==
    IF name \in HeaderNames(h) THEN h[HeaderIndex(h, name)].values ELSE <<>>

\* HeaderMap::get: the first value of the name
HeaderGet(h, name) ==
    IF name \in HeaderNames(h) THEN Some(h[HeaderIndex(h, name)].values[1]) ELSE None

\* HeaderMap::append: keeps the values already there
HeaderAppend(h, name, value) ==
    IF name \in HeaderNames(h)
    THEN [h EXCEPT ![HeaderIndex(h, name)].values = Append(@, value)]
    ELSE Append(h, [name |-> name, values |-> <<value>>])

\* HeaderMap::insert: replaces the values already there
HeaderInsert(h, name, value) ==
    IF name \in HeaderNames(h)
    THEN [h EXCEPT ![HeaderIndex(h, name)].values = <<value>>]
    ELSE Append(h, [name |-> name, values |-> <<value>>])

\* HeaderMap::remove
HeaderRemove(h, name) == SelectSeq(h, LAMBDA e : e.name # name)

RECURSIVE AppendAll(_, _, _)
AppendAll(h, name, values) ==
    IF Len(values) = 0 THEN h
    ELSE AppendAll(HeaderAppend(h, name, Head(values)), name, Tail(values))

RECURSIVE HeaderExtend(_, _)
\* impl Extend<(Option<HeaderName>, T)> for HeaderMap<T>, fed by
\* HeaderMap::into_iter: the first value of every name of `other` is
\* inserted (an occupied entry has its previous values replaced), the
\* following values of that name are appended.
HeaderExtend(h, other) ==
    IF Len(other) = 0 THEN h
    ELSE LET e == Head(other)
             first == HeaderInsert(h, e.name, Head(e.values))
         IN  HeaderExtend(AppendAll(first, e.name, Tail(e.values)), Tail(other))

\* A String or a HeaderValue may hold tokens that are no visible ASCII text:
\* "0x0A" stands for a line feed, a control character, "0xE9" for a byte
\* above 127.
ControlTokens == {"0x0A"}

ObsTextTokens == {"0xE9"}

\* HeaderValue::from_str: Err for a text with a control character in it
HeaderValueFromStr(s) ==
    IF \E k \in 1..Len(s) : s[k] \in ControlTokens THEN None ELSE Some(s)

\* HeaderValue::to_str(..).ok(): None unless every byte is visible ASCII
HeaderValueToStr(v) ==
    IF \E k \in 1..Len(v) : v[k] \in ControlTokens \cup ObsTextTokens
    THEN None ELSE Some(v)

\* headers.get(name).and_then(|s| s.to_str().ok())
HeaderGetStr(h, name) ==
    IF IsSome(HeaderGet(h, name)) THEN HeaderValueToStr(HeaderGet(h, name)[1])
    ELSE None

-----------------------------------------------------------------------------
(* aws_lambda_events::encodings::Body and base64. *)

EmptyBody == [tag |-> "Empty", text |-> <<>>, bytes |-> <<>>]

\* Body::from(&str) / Body::from(String)
TextBody(s) == [tag |-> "Text", text |-> s, bytes |-> <<>>]

\* Body::from(Vec<u8>)
BinaryBody(b) == [tag |-> "Binary", text |-> <<>>, bytes |-> b]

\* The standard base64 alphabet; the index of a character is its 6-bit value.
B64Alphabet == <<
    "A", "B", "C", "D", "E", "F", "G", "H", "I", "J", "K", "L", "M", "N", "O", "P",
    "Q", "R", "S", "T", "U", "V", "W", "X", "Y", "Z", "a", "b", "c", "d", "e", "f",
    "g", "h", "i", "j", "k", "l", "m", "n", "o", "p", "q", "r", "s", "t", "u", "v",
    "w", "x", "y", "z", "0", "1", "2", "3", "4", "5", "6", "7", "8", "9", "+", "/">>

B64Chars == { B64Alphabet[k] : k \in 1..Len(B64Alphabet) }

B64Value(c) == (CHOOSE k \in 1..Len(B64Alphabet) : B64Alphabet[k] = c) - 1

\* The bytes of one group of four characters (the last group may be padded).
B64Group(g) ==
    LET a == B64Value(g[1])
        b == B64Value(g[2])
        c == IF g[3] = "=" THEN 0 ELSE B64Value(g[3])
        d == IF g[4] = "=" THEN 0 ELSE B64Value(g[4])
        n == ((a * 64 + b) * 64 + c) * 64 + d
        b1 == n \div 65536
        b2 == (n \div 256) % 256
        b3 == n % 256
    IN  IF g[3] = "=" THEN <<b1>>
        ELSE IF g[4] = "=" THEN <<b1, b2>>
        ELSE <<b1, b2, b3>>

\* Whether group k (of n groups) of the text is well formed: padding only at
\* the end of the last group, and no bits left over under the padding.
B64GroupOk(s, k, n) ==
    LET g == SubSeq(s, 4 * k - 3, 4 * k)
    IN  /\ g[1] \in B64Chars
        /\ g[2] \in B64Chars
        /\ g[3] \in B64Chars \/ (g[3] = "=" /\ g[4] = "=" /\ k = n
                                 /\ B64Value(g[2]) % 16 = 0)
        /\ g[4] \in B64Chars \/ (g[4] = "=" /\ k = n
                                 /\ (g[3] = "=" \/ B64Value(g[3]) % 4 = 0))

B64Valid(s) ==
    /\ Len(s) % 4 = 0
    /\ \A k \in 1..(Len(s) \div 4) : B64GroupOk(s, k, Len(s) \div 4)

RECURSIVE B64Bytes(_)
B64Bytes(s) ==
    IF Len(s) = 0 THEN <<>>
    ELSE B64Group(SubSeq(s, 1, 4)) \o B64Bytes(SubSeq(s, 5, Len(s)))

\* base64::decode: Ok(bytes) or Err
B64Decode(s) ==
    IF B64Valid(s) THEN [ok |-> TRUE, bytes |-> B64Bytes(s)]
    ELSE [ok |-> FALSE, bytes |-> <<>>]

\* The characters of one group of one, two or three bytes.
B64EncodeGroup(b) ==
    LET n == b[1] * 65536 + (IF Len(b) > 1 THEN b[2] * 256 ELSE 0)
                 + (IF Len(b) > 2 THEN b[3] ELSE 0)
        c1 == B64Alphabet[(n \div 262144) + 1]
        c2 == B64Alphabet[((n \div 4096) % 64) + 1]
        c3 == B64Alphabet[((n \div 64) % 64) + 1]
        c4 == B64Alphabet[(n % 64) + 1]
    IN  IF Len(b) = 1 THEN <<c1, c2, "=", "=">>
        ELSE IF Len(b) = 2 THEN <<c1, c2, c3, "=">>
        ELSE <<c1, c2, c3, c4>>

RECURSIVE B64Encode(_)
\* base64::encode
B64Encode(bytes) ==
    IF Len(bytes) = 0 THEN <<>>
    ELSE IF Len(bytes) <= 3 THEN B64EncodeGroup(bytes)
    ELSE B64EncodeGroup(SubSeq(bytes, 1, 3)) \o B64Encode(SubSeq(bytes, 4, Len(bytes)))

\* Body::from_maybe_encoded(is_base64_encoded, body), of aws_lambda_events:
\* the bytes of a base64 text, the text itself otherwise.  The callers take a
\* Body from it, not a Result: a text that is flagged base64 and does not
\* decode is a hard error (ok = FALSE), it panics.
FromMaybeEncoded(base64, b) ==
    IF base64
    THEN (IF B64Decode(b).ok
          THEN [ok |-> TRUE, body |-> BinaryBody(B64Decode(b).bytes)]
          ELSE [ok |-> FALSE, body |-> EmptyBody])
    ELSE [ok |-> TRUE, body |-> TextBody(b)]

\* A body conversion that would answer an undecodable text with no body.
BodyOfLenient(body, base64) ==
    IF IsSome(body) /\ FromMaybeEncoded(base64, body[1]).ok
    THEN FromMaybeEncoded(base64, body[1])
    ELSE [ok |-> TRUE, body |-> EmptyBody]

\* ag.body.as_deref().map_or_else(Body::default, |b| from_maybe_encoded(..))
BodyOf(body, base64) ==
    IF IsSome(body) THEN FromMaybeEncoded(base64, body[1])
    ELSE [ok |-> TRUE, body |-> EmptyBody]

-----------------------------------------------------------------------------
(* The event payload and its decoding (request.rs, LambdaRequest). *)

\* RequestOrigin
Origins == {"ApiGatewayV1", "ApiGatewayV2", "Alb"}

\* The variants of the untagged enum LambdaRequest in declaration order:
\* serde tries them in this order.
TrialOrderAlbFirst == <<"Alb", "ApiGatewayV1", "ApiGatewayV2">>

TrialOrder == <<"ApiGatewayV1", "ApiGatewayV2", "Alb">>

\* A payload is the JSON object of the event, reduced to the fields the
\* conversions read:
\*   json            whether the bytes are JSON at all
\*   httpMethod      Option: the top-level httpMethod (V1, Alb)
\*   path, rawPath, rawQueryString    Option<String>
\*   ctx             the variants of RequestContext whose fields the
\*                   requestContext object has ({} when it has none or is absent)
\*   ctxHttpMethod   Option: requestContext.http.method (V2)
\*   ctxDomainName   Option: requestContext.domainName (V2)
\*   headers, multiValueHeaders       HeaderMap (one value per name in headers)
\*   queryStringParameters            a map: a set of [name, value]
\*   multiValueQueryStringParameters  a map: a set of [name, values]
\*   cookies         Option<Vec<String>> (V2)
\*   body            Option<String>
\*   isBase64Encoded Option<bool>
BasePayload ==
    [json |-> TRUE, httpMethod |-> None, path |-> None, rawPath |-> None,
     rawQueryString |-> None, ctx |-> {}, ctxHttpMethod |-> None,
     ctxDomainName |-> None, headers |-> EmptyHeaders,
     multiValueHeaders |-> EmptyHeaders,
     queryStringParameters |-> {}, multiValueQueryStringParameters |-> {},
     cookies |-> None, body |-> None, isBase64Encoded |-> None]

\* Whether the payload has the fields a variant cannot be built without:
\* http_method is a bare Method in ApiGatewayProxyRequest and in
\* AlbTargetGroupRequest, request_context.http.method in
\* ApiGatewayV2httpRequest; path, raw_path, body and the maps are Options or
\* default to empty.
Matches(variant, p) ==
    CASE variant = "ApiGatewayV1" ->
             IsSome(p.httpMethod) /\ "ApiGatewayV1" \in p.ctx
      [] variant = "ApiGatewayV2" ->
             IsSome(p.ctxHttpMethod) /\ "ApiGatewayV2" \in p.ctx
      [] variant = "Alb" ->
             IsSome(p.httpMethod) /\ "Alb" \in p.ctx

RECURSIVE FirstMatch(_, _)
\* The first variant of `order` the payload matches, if any.
FirstMatch(order, p) ==
    IF Len(order) = 0 THEN None
    ELSE IF Matches(Head(order), p) THEN Some(Head(order))
    ELSE FirstMatch(Tail(order), p)

\* Deserialize for LambdaRequest (derive, untagged): Ok(variant) or Err.
DecodeWith(order, p) ==
    IF ~p.json THEN [ok |-> FALSE, error |-> "MalformedJson", variant |-> None]
    ELSE IF IsSome(FirstMatch(order, p))
         THEN [ok |-> TRUE, error |-> "", variant |-> FirstMatch(order, p)]
         ELSE [ok |-> FALSE, error |-> "NoMatchingSchema", variant |-> None]

DecodeAlbFirst(p) == DecodeWith(TrialOrderAlbFirst, p)

Decode(p) == DecodeWith(TrialOrder, p)

\* LambdaRequest::request_origin
request_origin(variant) ==
    CASE variant = "ApiGatewayV1" -> "ApiGatewayV1"
      [] variant = "ApiGatewayV2" -> "ApiGatewayV2"
      [] variant = "Alb" -> "Alb"

-----------------------------------------------------------------------------
(* Normalization into http::Request<Body> (request.rs). *)

\* StrMap::from(HashMap<String, String>): every key with its one value
StrMapFromSingle(m) == { [name |-> e.name, values |-> <<e.value>>] : e \in m }

\* StrMap::from(HashMap<String, Vec<String>>)
StrMapFromMulti(m) == m

\* StrMap::get_all
StrMapGetAll(m, name) ==
    IF \E e \in m : e.name = name
    THEN (CHOOSE e \in m : e.name = name).values
    ELSE <<>>

\* headers.get(x_forwarded_proto()).and_then(to_str).unwrap_or("https")
SchemeOf(headers) == UnwrapOr(HeaderGetStr(headers, "x-forwarded-proto"), <<"https">>)

\* headers.get(HOST).and_then(to_str).unwrap_or("localhost")
HostOf(headers) == UnwrapOr(HeaderGetStr(headers, "host"), <<"localhost">>)

\* format!("{}://{}{}", scheme, host, path.unwrap_or_default())
ProxyUri(headers, path) ==
    SchemeOf(headers) \o <<"://">> \o HostOf(headers) \o UnwrapOr(path, <<>>)

\* The uri block of into_api_gateway_v2_request: the host falls back to the
\* domain name of the request context, and the raw query string follows '?'.
V2Uri(headers, domainName, rawPath, rawQueryString) ==
    LET host == IF IsSome(HeaderGetStr(headers, "host"))
                THEN HeaderGetStr(headers, "host")[1]
                ELSE UnwrapOr(domainName, <<"localhost">>)
        url == SchemeOf(headers) \o <<"://">> \o host \o UnwrapOr(rawPath, <<>>)
    IN  IF IsSome(rawQueryString)
        THEN url \o <<"?">> \o rawQueryString[1]
        ELSE url

\* A query extension that would prefer the single-valued map.
ProxyQuerySinglePreferred(single, multi) ==
    IF single = {} THEN StrMapFromMulti(multi) ELSE StrMapFromSingle(single)

\* The QueryStringParameters extension of into_proxy_request and
\* into_alb_request: the multi-valued map unless it is empty.
ProxyQuery(single, multi) ==
    IF multi = {} THEN StrMapFromSingle(single) ELSE StrMapFromMulti(multi)

\* let mut headers = multi_value_headers; headers.extend(headers);
MergeHeaders(multi, single) == HeaderExtend(multi, single)

\* Headers whose Cookie would be replaced by the joined cookies.
V2HeadersInserting(headers, cookies) ==
    IF IsSome(cookies) /\ IsSome(HeaderValueFromStr(Join(cookies[1], ";")))
    THEN HeaderInsert(headers, "cookie", HeaderValueFromStr(Join(cookies[1], ";"))[1])
    ELSE headers

\* The headers of into_api_gateway_v2_request: the single-valued headers and,
\* if let Some(cookies) and if let Ok(header_value) = from_str(join(";")),
\* one more Cookie value, appended.
V2Headers(headers, cookies) ==
    IF IsSome(cookies) /\ IsSome(HeaderValueFromStr(Join(cookies[1], ";")))
    THEN HeaderAppend(headers, "cookie", HeaderValueFromStr(Join(cookies[1], ";"))[1])
    ELSE headers

\* What a conversion gives: the request it builds, or a panic (ok = FALSE)
\* when the body does not decode.
MkRequest(method, uri, query, context, headers, body) ==
    [ok |-> body.ok,
     request |-> [method |-> method, uri |-> uri, headers |-> headers,
                  body |-> body.body, query_string_parameters |-> query,
                  request_context |-> context]]

\* A V1 conversion that would supply a method of its own.
into_proxy_request_default_method(ag) ==
    MkRequest("GET",
              ProxyUri(ag.headers, ag.path),
              ProxyQuery(ag.queryStringParameters, ag.multiValueQueryStringParameters),
              "ApiGatewayV1",
              MergeHeaders(ag.multiValueHeaders, ag.headers),
              BodyOf(ag.body, UnwrapOr(ag.isBase64Encoded, FALSE)))

into_proxy_request(ag) ==
    MkRequest(ag.httpMethod[1],
              ProxyUri(ag.headers, ag.path),
              ProxyQuery(ag.queryStringParameters, ag.multiValueQueryStringParameters),
              "ApiGatewayV1",
              MergeHeaders(ag.multiValueHeaders, ag.headers),
              BodyOf(ag.body, UnwrapOr(ag.isBase64Encoded, FALSE)))

\* is_base64_encoded is a bare bool for ApiGatewayV2 and Alb, false when the
\* payload does not give it.
into_api_gateway_v2_request(ag) ==
    MkRequest(ag.ctxHttpMethod[1],
              V2Uri(ag.headers, ag.ctxDomainName, ag.rawPath, ag.rawQueryString),
              StrMapFromSingle(ag.queryStringParameters),
              "ApiGatewayV2",
              V2Headers(ag.headers, ag.cookies),
              BodyOf(ag.body, UnwrapOr(ag.isBase64Encoded, FALSE)))

into_alb_request(alb) ==
    MkRequest(alb.httpMethod[1],
              ProxyUri(alb.headers, alb.path),
              ProxyQuery(alb.queryStringParameters, alb.multiValueQueryStringParameters),
              "Alb",
              MergeHeaders(alb.multiValueHeaders, alb.headers),
              BodyOf(alb.body, UnwrapOr(alb.isBase64Encoded, FALSE)))

\* impl From<LambdaRequest> for http::Request<Body>
IntoRequest(variant, p) ==
    CASE variant = "ApiGatewayV2" -> into_api_gateway_v2_request(p)
      [] variant = "ApiGatewayV1" -> into_proxy_request(p)
      [] variant = "Alb" -> into_alb_request(p)

\* http::Uri, read back: the tokens after the first '?', if there is one.
UriQuery(uri) ==
    IF \E k \in 1..Len(uri) : uri[k] = "?"
    THEN LET q == CHOOSE k \in 1..Len(uri) :
                     uri[k] = "?" /\ \A j \in 1..(k - 1) : uri[j] # "?"
         IN  Some(SubSeq(uri, q + 1, Len(uri)))
    ELSE None

\* http::Uri::path of an absolute uri: what stands between the authority
\* and the query, "/" when nothing does.  The scheme and the authority are
\* one token each.
UriPath(uri) ==
    LET stop == IF \E k \in 1..Len(uri) : uri[k] = "?"
                THEN (CHOOSE k \in 1..Len(uri) :
                         uri[k] = "?" /\ \A j \in 1..(k - 1) : uri[j] # "?") - 1
                ELSE Len(uri)
    IN  IF stop < 4 THEN <<"/">> ELSE SubSeq(uri, 4, stop)

-----------------------------------------------------------------------------
(* Response coercion and serialization (response.rs). *)

RECURSIVE JsonMembers(_)
\* The members of a JSON object, "key":"value" separated by commas.
JsonMembers(entries) ==
    IF Len(entries) = 0 THEN <<>>
    ELSE <<"\"", Head(entries)[1], "\"", ":", "\"", Head(entries)[2], "\"">>
         \o (IF Len(entries) > 1 THEN <<",">> ELSE <<>>)
         \o JsonMembers(Tail(entries))

\* serde_json::to_string of a Value: an object of string members, or a string.
JsonToString(v) ==
    IF v.type = "object" THEN <<"{">> \o JsonMembers(v.members) \o <<"}">>
    ELSE <<"\"", v.string, "\"">>

\* What a handler hands back (Handler::Response): an http::Response, a text or
\* a serde_json::Value.
FullResponse(status, headers, body) ==
    [kind |-> "Response", status |-> status, headers |-> headers, body |-> body,
     text |-> <<>>, json |-> [type |-> "string", string |-> "", members |-> <<>>]]

TextResponse(text) ==
    [kind |-> "Text", status |-> 200, headers |-> EmptyHeaders, body |-> EmptyBody,
     text |-> text, json |-> [type |-> "string", string |-> "", members |-> <<>>]]

JsonResponse(value) ==
    [kind |-> "Json", status |-> 200, headers |-> EmptyHeaders, body |-> EmptyBody,
     text |-> <<>>, json |-> value]

\* A coercion that would not say what a JSON body is.
into_response_untyped(r) ==
    CASE r.kind = "Response" ->
             [status |-> r.status, headers |-> r.headers, body |-> r.body]
      [] r.kind = "Text" ->
             [status |-> 200, headers |-> EmptyHeaders, body |-> TextBody(r.text)]
      [] r.kind = "Json" ->
             [status |-> 200, headers |-> EmptyHeaders,
              body |-> TextBody(JsonToString(r.json))]

\* IntoResponse::into_response for Response<B>, String / &str and Value
into_response(r) ==
    CASE r.kind = "Response" ->
             [status |-> r.status, headers |-> r.headers, body |-> r.body]
      [] r.kind = "Text" ->
             [status |-> 200, headers |-> EmptyHeaders, body |-> TextBody(r.text)]
      [] r.kind = "Json" ->
             [status |-> 200,
              headers |-> HeaderAppend(EmptyHeaders, "content-type",
                                       <<"application/json">>),
              body |-> TextBody(JsonToString(r.json))]

\* StatusCode::canonical_reason for the codes the model uses
canonical_reason(status) ==
    CASE status = 200 -> Some("OK")
      [] status = 404 -> Some("Not Found")
      [] OTHER -> None

\* A status description of the code alone.
StatusDescriptionCodeOnly(status) == Digits(status)

\* format!("{} {}", status_code, canonical_reason().unwrap_or_default())
StatusDescription(status) ==
    Digits(status) \o <<" ">> \o (IF IsSome(canonical_reason(status))
                                  THEN <<canonical_reason(status)[1]>> ELSE <<>>)

\* A body match that would flag every body there is as base64.
BodyAndFlagOfAnyBody(b) ==
    [is_base64_encoded |-> b.tag # "Empty",
     body |-> IF b.tag = "Empty" THEN None ELSE Some(b)]

\* let (is_base64_encoded, body) = match body { Empty => (false, None),
\*     b @ Text(_) => (false, Some(b)), b @ Binary(_) => (true, Some(b)) }
BodyAndFlag(b) ==
    CASE b.tag = "Empty" -> [is_base64_encoded |-> FALSE, body |-> None]
      [] b.tag = "Text" -> [is_base64_encoded |-> FALSE, body |-> Some(b)]
      [] b.tag = "Binary" -> [is_base64_encoded |-> TRUE, body |-> Some(b)]

\* headers.get_all(SET_COOKIE).iter()
\*     .map(|v| v.to_str().ok().unwrap_or_default().to_string()).collect()
CookiesOf(headers) ==
    LET values == HeaderGetAll(headers, "set-cookie")
    IN  [k \in 1..Len(values) |-> UnwrapOr(HeaderValueToStr(values[k]), <<>>)]

\* A response that would keep its Set-Cookie headers.
WithSetCookie(headers) == headers

\* headers.remove(SET_COOKIE)
WithoutSetCookie(headers) == HeaderRemove(headers, "set-cookie")

\* LambdaResponse::from_response(request_origin, value)
from_response(origin, value) ==
    LET is_base64_encoded == BodyAndFlag(value.body).is_base64_encoded
        body == BodyAndFlag(value.body).body
    IN  CASE origin = "ApiGatewayV2" ->
                 [variant |-> "ApiGatewayV2",
                  body |-> body,
                  status_code |-> value.status,
                  is_base64_encoded |-> Some(is_base64_encoded),
                  cookies |-> CookiesOf(value.headers),
                  headers |-> WithoutSetCookie(value.headers),
                  multi_value_headers |-> WithoutSetCookie(value.headers),
                  status_description |-> None]
          [] origin = "ApiGatewayV1" ->
                 [variant |-> "ApiGatewayV1",
                  body |-> body,
                  status_code |-> value.status,
                  is_base64_encoded |-> Some(is_base64_encoded),
                  cookies |-> <<>>,
                  headers |-> value.headers,
                  multi_value_headers |-> value.headers,
                  status_description |-> None]
          [] origin = "Alb" ->
                 [variant |-> "Alb",
                  body |-> body,
                  status_code |-> value.status,
                  is_base64_encoded |-> Some(is_base64_encoded),
                  cookies |-> <<>>,
                  headers |-> value.headers,
                  multi_value_headers |-> value.headers,
                  status_description |-> Some(StatusDescription(value.status))]

\* A headers field written with the last value of every name.
SerializeHeadersLast(h) ==
    [k \in 1..Len(h) |-> [name |-> h[k].name,
                          value |-> h[k].values[Len(h[k].values)]]]

\* The "headers" object of the serialized response: one value for every
\* name, the first one (tests::serialize_multi_value_headers: "multi" with
\* the values a, b is written "headers":{"multi":"a"}).
SerializeHeaders(h) ==
    [k \in 1..Len(h) |-> [name |-> h[k].name, value |-> h[k].values[1]]]

\* The "multiValueHeaders" object: every name with all of its values
\* ("multiValueHeaders":{"multi":["a","b"]}).
SerializeMultiValueHeaders(h) ==
    [k \in 1..Len(h) |-> [name |-> h[k].name, values |-> h[k].values]]

\* Serialize for Body: a Text is written as it is, a Binary as the base64
\* text of its bytes.
SerializeBody(b) == IF b.tag = "Binary" THEN B64Encode(b.bytes) ELSE b.text

\* The header serializers write a value through to_str: a response with a
\* header value that is no visible ASCII text cannot be written.
Serializable(resp) ==
    \A k \in 1..Len(resp.multi_value_headers) :
        \A j \in 1..Len(resp.multi_value_headers[k].values) :
            IsSome(HeaderValueToStr(resp.multi_value_headers[k].values[j]))

\* The serialized form of a LambdaResponse: the JSON object, a field that is
\* left out being None (tests::serialize_body_for_api_gateway,
\* serialize_body_for_alb, serialize_multi_value_headers, serialize_cookies).
Serialize(resp) ==
    [statusCode |-> resp.status_code,
     headers |-> SerializeHeaders(resp.headers),
     multiValueHeaders |-> SerializeMultiValueHeaders(resp.multi_value_headers),
     body |-> IF IsSome(resp.body) THEN Some(SerializeBody(resp.body[1])) ELSE None,
     isBase64Encoded |-> resp.is_base64_encoded,
     cookies |-> IF resp.variant = "ApiGatewayV2" THEN Some(resp.cookies) ELSE None,
     statusDescription |-> resp.status_description]

-----------------------------------------------------------------------------
(* The inputs: payloads the host may deliver, results a handler may give. *)

Hdr(name, values) == [name |-> name, values |-> values]

SingleHeaderChoices ==
    { EmptyHeaders,
      <<Hdr("x", << <<"b">> >>)>>,
      <<Hdr("host", << <<"example.com">> >>), Hdr("x-forwarded-proto", << <<"http">> >>)>>,
      <<Hdr("y", << <<"d">> >>), Hdr("x", << <<"c">> >>)>> }

MultiHeaderChoices ==
    { EmptyHeaders,
      <<Hdr("x", << <<"a">>, <<"b">> >>)>>,
      <<Hdr("x", << <<"a">> >>), Hdr("z", << <<"e">>, <<"f">> >>)>> }

SingleQueryChoices ==
    { {},
      { [name |-> "a", value |-> <<"1">>] },
      { [name |-> "a", value |-> <<"2">>], [name |-> "b", value |-> <<"3">>] } }

MultiQueryChoices ==
    { {},
      { [name |-> "a", values |-> << <<"1">>, <<"2">> >>] },
      { [name |-> "c", values |-> <<>>] } }

ContextChoices ==
    { {}, {"ApiGatewayV1"}, {"ApiGatewayV2"}, {"Alb"}, {"ApiGatewayV1", "Alb"},
      {"ApiGatewayV1", "ApiGatewayV2", "Alb"} }

\* "Zm9v" is the base64 text of the bytes of "foo"; "Zm8=" of "fo";
\* "hello" and "Zm9" are not base64 texts.
BodyChoices ==
    { None, Some(<<"hello">>), Some(<<>>), Some(<<"Z", "m", "9", "v">>),
      Some(<<"Z", "m", "8", "=">>), Some(<<"Z", "m", "9">>) }

\* The smallest payload of every origin.
V1Payload ==
    [BasePayload EXCEPT !.httpMethod = Some("GET"), !.path = Some(<<"/a">>),
                        !.ctx = {"ApiGatewayV1"}]

V2Payload ==
    [BasePayload EXCEPT !.ctxHttpMethod = Some("POST"), !.rawPath = Some(<<"/r">>),
                        !.ctx = {"ApiGatewayV2"}]

AlbPayload ==
    [BasePayload EXCEPT !.httpMethod = Some("GET"), !.path = Some(<<"/a">>),
                        !.ctx = {"Alb"}]

\* httpMethod, path, headers and an empty requestContext: the fields of
\* both ApiGatewayProxyRequest and AlbTargetGroupRequest.
AmbiguousPayload ==
    [BasePayload EXCEPT !.httpMethod = Some("GET"), !.path = Some(<<"/a">>),
                        !.ctx = {"ApiGatewayV1", "Alb"}]

NotJson == [BasePayload EXCEPT !.json = FALSE]

BadBase64Payload ==
    [V1Payload EXCEPT !.body = Some(<<"hello">>), !.isBase64Encoded = Some(TRUE)]

\* Payloads that differ in what decoding looks at.
DecodePayloads ==
    { [BasePayload EXCEPT !.httpMethod = m, !.ctxHttpMethod = cm, !.ctx = c,
                          !.path = pa, !.rawPath = rp] :
        m \in {None, Some("GET"), Some("POST")}, cm \in {None, Some("PUT")},
        c \in ContextChoices, pa \in {None, Some(<<"/a">>)},
        rp \in {None, Some(<<"/r">>)} }

\* Payloads of every origin that differ in headers, query and cookies.
MapPayloads ==
    { [base EXCEPT !.headers = h, !.multiValueHeaders = mh,
                   !.queryStringParameters = q,
                   !.multiValueQueryStringParameters = mq,
                   !.rawQueryString = rq, !.cookies = ck] :
        base \in {V1Payload, V2Payload, AlbPayload},
        h \in SingleHeaderChoices, mh \in MultiHeaderChoices,
        q \in SingleQueryChoices, mq \in MultiQueryChoices,
        rq \in {None, Some(<<>>), Some(<<"a=1&a=2">>)},
        ck \in {None, Some(<< <<"x=1">>, <<"y=2">> >>)} }

\* Payloads of every origin that differ in the body and its flag.
BodyPayloads ==
    { [base EXCEPT !.body = b, !.isBase64Encoded = f, !.ctxDomainName = dn] :
        base \in {V1Payload, V2Payload, AlbPayload}, b \in BodyChoices,
        f \in {None, Some(FALSE), Some(TRUE)},
        dn \in {None, Some(<<"api.example.com">>)} }

\* ApiGatewayV2 payloads that differ in the cookies and in the headers the
\* cookies are added to: no list, an empty one, one and two cookies, a cookie
\* with a line feed in it; no headers, a Cookie header, other headers.
CookiePayloads ==
    { [V2Payload EXCEPT !.cookies = ck, !.headers = h] :
        ck \in { None, Some(<<>>), Some(<< <<"x=1">> >>),
                 Some(<< <<"x=1">>, <<"y=2">> >>),
                 Some(<< <<"a=", "0x0A", "b">>, <<"y=2">> >>) },
        h \in { EmptyHeaders,
                <<Hdr("cookie", << <<"z=0">> >>)>>,
                <<Hdr("x", << <<"b">> >>)>>,
                <<Hdr("cookie", << <<"z=0">> >>), Hdr("x", << <<"b">> >>)>> } }

AllPayloads ==
    DecodePayloads \cup MapPayloads \cup BodyPayloads
        \cup {AmbiguousPayload, NotJson, BadBase64Payload}

SamplePayloads ==
    { AmbiguousPayload,
      [V2Payload EXCEPT !.rawQueryString = Some(<<"a=1">>)],
      [AlbPayload EXCEPT !.body = Some(<<"Z", "m", "9", "v">>),
                         !.isBase64Encoded = Some(TRUE)],
      BadBase64Payload,
      BasePayload }

\* Result<R, E> of the handler future.
Ok(value) == [ok |-> TRUE, value |-> value, error |-> ""]

Err(e) == [ok |-> FALSE, value |-> TextResponse(<<>>), error |-> e]

ResponseHeaderChoices ==
    { EmptyHeaders,
      <<Hdr("multi", << <<"a">>, <<"b">> >>)>>,
      <<Hdr("set-cookie", << <<"cookie1=a">>, <<"cookie2=b">> >>),
        Hdr("x", << <<"1">> >>)>> }

ResponseBodyChoices ==
    { EmptyBody, TextBody(<<"hello">>), BinaryBody(<<102, 111, 111>>) }

AllResults ==
    { Ok(FullResponse(st, h, b)) :
        st \in {200, 404}, h \in ResponseHeaderChoices, b \in ResponseBodyChoices }
    \cup { Ok(TextResponse(<<"hi">>)),
           Ok(JsonResponse([type |-> "object", string |-> "",
                            members |-> << <<"hello", "lambda">> >>])),
           Err("boom"), Err("oops") }

\* Results that differ in everything serialization looks at: a status with
\* no canonical reason, a Set-Cookie value that is no visible ASCII text,
\* bodies of every tag.
ResponseResults ==
    AllResults \cup
    { Ok(FullResponse(st, h, b)) :
        st \in {200, 404, 599},
        h \in ResponseHeaderChoices \cup
              { <<Hdr("x", << <<"1">> >>),
                  Hdr("set-cookie", << <<"id=", "0xE9">>, <<"cookie2=b">> >>)>>,
                <<Hdr("set-cookie", << <<"only=1">> >>)>> },
        b \in ResponseBodyChoices \cup { TextBody(<<>>), BinaryBody(<<102, 111>>) } }

SampleResults ==
    { Ok(TextResponse(<<"hi">>)),
      Ok(FullResponse(404, <<Hdr("multi", << <<"a">>, <<"b">> >>)>>,
                      BinaryBody(<<102, 111, 111>>))),
      Err("boom") }

-----------------------------------------------------------------------------
(* The adapter (lib.rs): Adapter::call and the TransformResponse future. *)

Slots == 1..MaxInvocations

\* One invocation, from the payload the host received to what it gets back.
\*   pc        "idle", "failed" (no future was made), "pending" (the
\*             TransformResponse future exists and is not finished), "done"
\*             (it was Ready), "dropped" (it was dropped before it was Ready)
\*   event     the variant of LambdaRequest the payload was decoded as
\*   origin    the request_origin field of the future
\*   request   the request the handler was called with
\*   polls     how often the handler future answered Pending
\*   handlerPoll, adapterPoll   the answers of the last poll
\*   handlerResult   the output of the handler future
\*   coerced   the response the handler's value was coerced to
\*   val       the local `val` of handle_request (stateful example)
\*   steps     what was done for the invocation, in order
\*   output    the output of the future; error: why no future was made
IdleInvocation ==
    [pc |-> "idle", payload |-> BasePayload, event |-> None, origin |-> None,
     request |-> None, polls |-> 0, handlerPoll |-> "none",
     adapterPoll |-> "none", handlerResult |-> None, coerced |-> None,
     val |-> None, steps |-> <<>>, output |-> None, error |-> ""]

\* The host deserializes the payload into the event type of the adapter and,
\* if that worked, calls <Adapter as LambdaHandler>::call: it takes the
\* origin, converts the event (a conversion that panics ends the invocation
\* before the handler is called) and calls the handler with the request.
AdapterCall(p) ==
    LET d == Decode(p)
        request_origin_ == request_origin(d.variant[1])
        req == IntoRequest(d.variant[1], p)
    IN  IF ~d.ok
        THEN [IdleInvocation EXCEPT !.pc = "failed", !.payload = p,
                                    !.error = d.error, !.steps = <<"decode">>]
        ELSE IF ~req.ok
        THEN [IdleInvocation EXCEPT !.pc = "failed", !.payload = p,
                                    !.event = d.variant,
                                    !.error = "InvalidBase64Body",
                                    !.steps = <<"decode", "normalize">>]
        ELSE [IdleInvocation EXCEPT !.pc = "pending", !.payload = p,
                                    !.event = d.variant,
                                    !.origin = Some(request_origin_),
                                    !.request = Some(req.request),
                                    !.steps = <<"decode", "normalize", "invoke">>]

\* Deserialize for ApiGatewayProxyRequest (a struct, no trial of variants):
\* http_method and the fields of its request context are required.
DecodeProxy(p) ==
    IF ~p.json THEN [ok |-> FALSE, error |-> "MalformedJson", variant |-> None]
    ELSE IF Matches("ApiGatewayV1", p)
         THEN [ok |-> TRUE, error |-> "", variant |-> Some("ApiGatewayV1")]
         ELSE [ok |-> FALSE, error |-> "MissingField", variant |-> None]

\* A proxy adapter that would detect the origin as Adapter::call does.
ProxyAdapterCallDetecting(p) == AdapterCall(p)

\* <ProxyAdapter as LambdaHandler<ApiGatewayProxyRequest, _>>::call: the
\* origin is RequestOrigin::ApiGatewayV1 and the conversion
\* into_proxy_request, whatever the event holds.
ProxyAdapterCall(p) ==
    LET d == DecodeProxy(p)
        req == into_proxy_request(p)
    IN  IF ~d.ok
        THEN [IdleInvocation EXCEPT !.pc = "failed", !.payload = p,
                                    !.error = d.error, !.steps = <<"decode">>]
        ELSE IF ~req.ok
        THEN [IdleInvocation EXCEPT !.pc = "failed", !.payload = p,
                                    !.event = d.variant,
                                    !.error = "InvalidBase64Body",
                                    !.steps = <<"decode", "normalize">>]
        ELSE [IdleInvocation EXCEPT !.pc = "pending", !.payload = p,
                                    !.event = d.variant,
                                    !.origin = Some("ApiGatewayV1"),
                                    !.request = Some(req.request),
                                    !.steps = <<"decode", "normalize", "invoke">>]

\* Result<LambdaResponse, E>, and what the host writes for an Ok.
OkOutput(response) ==
    [ok |-> TRUE, error |-> "", response |-> Some(response),
     json |-> IF Serializable(response) THEN Some(Serialize(response)) ELSE None]

ErrOutput(error) == [ok |-> FALSE, error |-> error, response |-> None, json |-> None]

\* A poll that would answer a handler error with a response of its own.
PollReadyOfEncodingErrors(invocation, result) ==
    [invocation EXCEPT
        !.pc = "done", !.handlerPoll = "Ready", !.adapterPoll = "Ready",
        !.handlerResult = Some(result),
        !.coerced = Some(into_response(IF result.ok THEN result.value
                                       ELSE TextResponse(<<result.error>>))),
        !.steps = @ \o <<"coerce", "serialize">>,
        !.output = Some(OkOutput(
            from_response(invocation.origin[1],
                          into_response(IF result.ok THEN result.value
                                        ELSE TextResponse(<<result.error>>)))))]

\* A poll that would serialize every response in the ApiGatewayV1 shape.
PollReadyOfFixedOrigin(invocation, result) ==
    IF result.ok
    THEN [invocation EXCEPT
             !.pc = "done", !.handlerPoll = "Ready", !.adapterPoll = "Ready",
             !.handlerResult = Some(result),
             !.coerced = Some(into_response(result.value)),
             !.steps = @ \o <<"coerce", "serialize">>,
             !.output = Some(OkOutput(from_response("ApiGatewayV1",
                                                    into_response(result.value))))]
    ELSE [invocation EXCEPT
             !.pc = "done", !.handlerPoll = "Ready", !.adapterPoll = "Ready",
             !.handlerResult = Some(result),
             !.output = Some(ErrOutput(result.error))]

\* TransformResponse::poll when the handler future is Ready(result):
\* result.map(|resp| from_response(&self.request_origin, resp.into_response()))
PollReadyOf(invocation, result) ==
    IF result.ok
    THEN [invocation EXCEPT
             !.pc = "done", !.handlerPoll = "Ready", !.adapterPoll = "Ready",
             !.handlerResult = Some(result),
             !.coerced = Some(into_response(result.value)),
             !.steps = @ \o <<"coerce", "serialize">>,
             !.output = Some(OkOutput(from_response(invocation.origin[1],
                                                    into_response(result.value))))]
    ELSE [invocation EXCEPT
             !.pc = "done", !.handlerPoll = "Ready", !.adapterPoll = "Ready",
             !.handlerResult = Some(result),
             !.output = Some(ErrOutput(result.error))]

\* A poll that would serialize what it has while the handler is Pending.
PollPendingOfEager(invocation) ==
    [invocation EXCEPT
        !.polls = @ + 1, !.handlerPoll = "Pending", !.adapterPoll = "Ready",
        !.steps = @ \o <<"serialize">>,
        !.output = Some(OkOutput(from_response(invocation.origin[1],
                                               into_response(TextResponse(<<>>)))))]

\* TransformResponse::poll when the handler future is Pending
PollPendingOf(invocation) ==
    [invocation EXCEPT !.polls = @ + 1, !.handlerPoll = "Pending",
                       !.adapterPoll = "Pending"]

Invoke(i, p) ==
    /\ inv[i].pc = "idle"
    /\ inv' = [inv EXCEPT ![i] = AdapterCall(p)]
    /\ UNCHANGED <<counter, expansion>>

\* An invocation of the adapter proxy_handler() returns.
ProxyInvoke(i, p) ==
    /\ inv[i].pc = "idle"
    /\ inv' = [inv EXCEPT ![i] = ProxyAdapterCall(p)]
    /\ UNCHANGED <<counter, expansion>>

PollPending(i) ==
    /\ inv[i].pc = "pending"
    /\ inv[i].polls < MaxPending
    /\ inv' = [inv EXCEPT ![i] = PollPendingOf(inv[i])]
    /\ UNCHANGED <<counter, expansion>>

PollReady(i, result) ==
    /\ inv[i].pc = "pending"
    /\ inv' = [inv EXCEPT ![i] = PollReadyOf(inv[i], result)]
    /\ UNCHANGED <<counter, expansion>>

\* The host gives the invocation up (a timeout): the future is dropped at a
\* suspension point, with the origin and the handler future it owns.
Drop(i) ==
    /\ inv[i].pc = "pending"
    /\ inv[i].val = None
    /\ inv' = [inv EXCEPT ![i].pc = "dropped"]
    /\ UNCHANGED <<counter, expansion>>

\* A counter whose fetch-and-add would lose the addition.
fetch_add_lost(c, n) == [previous |-> c, value |-> c]

\* AtomicUsize::fetch_add(n, SeqCst): one indivisible read-modify-write that
\* gives the previous value.
fetch_add(c, n) == [previous |-> c, value |-> c + n]

\* handle_request of the stateful example, polled by the adapter future:
\* let val = state.counter.fetch_add(1, Ordering::SeqCst);
StatefulFetchAdd(i) ==
    /\ inv[i].pc = "pending"
    /\ inv[i].val = None
    /\ inv' = [inv EXCEPT ![i].val = Some(fetch_add(counter, 1).previous)]
    /\ counter' = fetch_add(counter, 1).value
    /\ UNCHANGED expansion

\* Ok(format!("{}", &val)): the handler future is Ready in the poll that
\* read the counter, and the adapter future with it.
StatefulReturn(i) ==
    /\ inv[i].pc = "pending"
    /\ IsSome(inv[i].val)
    /\ inv' = [inv EXCEPT
                  ![i] = PollReadyOf(inv[i], Ok(TextResponse(Digits(inv[i].val[1]))))]
    /\ UNCHANGED <<counter, expansion>>

\* #[lambda(args)] on an item: the item is a function with a name, maybe the
\* async keyword, and inputs that are typed arguments or a receiver; an
\* argument of the attribute is a path (its segments) or something else.
MacroItem(name, asyncness, inputs) ==
    [name |-> name, asyncness |-> asyncness, inputs |-> inputs]

PathArg(segments) == [kind |-> "Path", segments |-> segments]

LitArg == [kind |-> "Lit", segments |-> <<>>]

\* syn::Path::is_ident: a path of one segment that is the identifier
PathIsIdent(path, ident) ==
    Len(path.segments) = 1 /\ path.segments[1] = ident

\* args.iter().any(|arg| NestedMeta::Meta(Meta::Path(path)) && is_ident("http"))
is_http(args) ==
    \E k \in 1..Len(args) : args[k].kind = "Path" /\ PathIsIdent(args[k], "http")

\* the same with path.is_ident("http::invoke")
is_http_invoke(args) ==
    \E k \in 1..Len(args) :
        args[k].kind = "Path" /\ PathIsIdent(args[k], "http::invoke")

CompileError(message) == [error |-> TRUE, message |-> message, wrapper |-> ""]

Wrapped(wrapper) == [error |-> FALSE, message |-> "", wrapper |-> wrapper]

\* pub fn lambda(attr, item): what the macro emits
lambda(args, item) ==
    IF item.name # "main"
    THEN CompileError("only the main function can be tagged with #[lambda]")
    ELSE IF ~item.asyncness
    THEN CompileError("the async keyword is missing from the function declaration")
    ELSE IF Len(item.inputs) = 2
    THEN (IF item.inputs[1] # "Typed"
          THEN CompileError("fn main's first argument must be fully formed")
          ELSE IF item.inputs[2] # "Typed"
          THEN CompileError("fn main's second argument must be fully formed")
          ELSE IF is_http(args) THEN Wrapped("handler")
          ELSE IF is_http_invoke(args) THEN Wrapped("proxy_handler")
          ELSE Wrapped("handler_fn"))
    ELSE CompileError("The #[lambda] macro can expects two arguments: a triggered event and lambda context.")

MacroArgChoices ==
    { <<>>,
      <<PathArg(<<"http">>)>>,
      <<PathArg(<<"http", "invoke">>)>>,
      <<PathArg(<<"invoke">>)>>,
      <<PathArg(<<"foo">>)>>,
      <<LitArg>>,
      <<PathArg(<<"foo">>), PathArg(<<"http">>)>>,
      <<PathArg(<<"foo">>), PathArg(<<"http", "invoke">>)>> }

MacroItemChoices ==
    { MacroItem(name, asyncness, inputs) :
        name \in {"main", "func"}, asyncness \in BOOLEAN,
        inputs \in { <<>>, <<"Typed">>, <<"Typed", "Typed">>,
                     <<"Receiver", "Typed">>, <<"Typed", "Typed", "Typed">> } }

NoExpansion ==
    [args |-> <<>>, item |-> MacroItem("main", TRUE, <<"Typed", "Typed">>),
     out |-> None]

\* The compiler expands the attribute.
Expand ==
    /\ expansion.out = None
    /\ expansion' = [expansion EXCEPT !.out = Some(lambda(expansion.args, expansion.item))]
    /\ UNCHANGED <<inv, counter>>

Init ==
    /\ inv = [i \in Slots |-> IdleInvocation]
    /\ counter = 0
    /\ expansion = NoExpansion

Next ==
    \/ \E i \in Slots, p \in SamplePayloads : Invoke(i, p)
    \/ \E i \in Slots : PollPending(i)
    \/ \E i \in Slots, r \in SampleResults : PollReady(i, r)
    \/ \E i \in Slots : Drop(i)

\* Several invocations in flight, a few payloads and results.
Spec == Init /\ [][Next]_vars

SingleNext ==
    \/ \E p \in AllPayloads : Invoke(1, p)
    \/ PollPending(1)
    \/ \E r \in AllResults : PollReady(1, r)
    \/ Drop(1)

\* One invocation, every payload and every result.
SingleSpec == Init /\ [][SingleNext]_vars

ProxyNext ==
    \/ \E p \in AllPayloads : ProxyInvoke(1, p)
    \/ PollPending(1)
    \/ \E r \in AllResults : PollReady(1, r)
    \/ Drop(1)

\* One invocation of the adapter of proxy_handler(), every payload and result.
ProxySpec == Init /\ [][ProxyNext]_vars

StatefulNext ==
    \/ \E i \in Slots, p \in SamplePayloads : Invoke(i, p)
    \/ \E i \in Slots : StatefulFetchAdd(i)
    \/ \E i \in Slots : StatefulReturn(i)
    \/ \E i \in Slots : Drop(i)

\* lambda::run(handler(stateful_handler)): several invocations in flight,
\* the counter starts at 0.
StatefulSpec == Init /\ [][StatefulNext]_vars

MacroInit ==
    /\ inv = [i \in Slots |-> IdleInvocation]
    /\ counter = 0
    /\ expansion \in { [args |-> a, item |-> it, out |-> None] :
                         a \in MacroArgChoices, it \in MacroItemChoices }

\* One use of the attribute, on every item with every argument list.
MacroSpec == MacroInit /\ [][Expand]_vars

CookieNext ==
    \/ \E p \in CookiePayloads : Invoke(1, p)
    \/ PollPending(1)
    \/ \E r \in SampleResults : PollReady(1, r)
    \/ Drop(1)

\* One ApiGatewayV2 invocation, every cookie list.
CookieSpec == Init /\ [][CookieNext]_vars

ResponseNext ==
    \/ \E p \in {V1Payload, V2Payload, AlbPayload} : Invoke(1, p)
    \/ PollPending(1)
    \/ \E r \in ResponseResults : PollReady(1, r)
    \/ Drop(1)

\* One invocation of every origin, every response a handler may give.
ResponseSpec == Init /\ [][ResponseNext]_vars

-----------------------------------------------------------------------------
(* Properties. *)

\* An invocation for which Adapter::call returned a future.
Called(i) == inv[i].pc \in {"pending", "done", "dropped"}

\* C1: a payload is decoded as the first of ApiGatewayV1, ApiGatewayV2, Alb
\* whose required fields it has: as ApiGatewayV1 whenever it has those of
\* ApiGatewayV1 (so also when it has those of Alb too), as ApiGatewayV2 only
\* when it lacks those of ApiGatewayV1, as Alb only when it lacks those of
\* both, and as nothing when it has those of none; the origin recorded is
\* that of the variant, so it is fixed by the payload.
C1_FirstMatchWins ==
    \A i \in Slots :
        LET p == inv[i].payload
            v1 == IsSome(p.httpMethod) /\ "ApiGatewayV1" \in p.ctx
            v2 == IsSome(p.ctxHttpMethod) /\ "ApiGatewayV2" \in p.ctx
            alb == IsSome(p.httpMethod) /\ "Alb" \in p.ctx
        IN  (inv[i].pc # "idle" /\ p.json) =>
                /\ v1 => inv[i].event = Some("ApiGatewayV1")
                /\ (~v1 /\ v2) => inv[i].event = Some("ApiGatewayV2")
                /\ (~v1 /\ ~v2 /\ alb) => inv[i].event = Some("Alb")
                /\ (~v1 /\ ~v2 /\ ~alb) =>
                       inv[i].event = None /\ inv[i].error = "NoMatchingSchema"
                /\ Called(i) => inv[i].origin = inv[i].event

\* A payload with the required fields of ApiGatewayV1 and of Alb was decoded
\* as ApiGatewayV1 and its handler was called.
C1_Witness ==
    \E i \in Slots :
        /\ Called(i)
        /\ IsSome(inv[i].payload.httpMethod)
        /\ {"ApiGatewayV1", "Alb"} \subseteq inv[i].payload.ctx
        /\ inv[i].origin = Some("ApiGatewayV1")

\* C2: at every moment of every interleaving, the origin an in-flight or
\* finished invocation holds is the one of the variant its own payload was
\* decoded as, whatever the number of Pending polls and whatever the others
\* do, and a response is serialized in the shape of that origin whatever the
\* handler returned: the variant of the response is the origin, only an Alb
\* response has a status description.
C2_OriginOfOwnInvocation ==
    \A i \in Slots :
        /\ Called(i) => /\ IsSome(inv[i].event)
                        /\ inv[i].origin = Some(request_origin(inv[i].event[1]))
        /\ ~Called(i) => inv[i].origin = None
        /\ (inv[i].pc = "done" /\ inv[i].output[1].ok) =>
               LET resp == inv[i].output[1].response[1]
               IN  /\ resp.variant = inv[i].event[1]
                   /\ IsSome(resp.status_description) <=> inv[i].event[1] = "Alb"

\* Two invocations of different origins in flight together: one was
\* answered in the ApiGatewayV2 shape after a Pending poll while the other,
\* an Alb one that had been polled already, was still pending.
C2_Witness ==
    \E i, j \in Slots :
        /\ i # j
        /\ inv[i].pc = "done" /\ inv[i].output[1].ok /\ inv[i].polls > 0
        /\ inv[i].output[1].response[1].variant = "ApiGatewayV2"
        /\ inv[j].pc = "pending" /\ inv[j].polls > 0
        /\ inv[j].origin = Some("Alb")

\* C3: when the handler future ends with an error, the adapter future ends
\* with that same error, and the invocation was neither coerced nor
\* serialized: no response exists.
C3_ErrorPassedThrough ==
    \A i \in Slots :
        (inv[i].pc = "done" /\ ~inv[i].handlerResult[1].ok) =>
            /\ ~inv[i].output[1].ok
            /\ inv[i].output[1].error = inv[i].handlerResult[1].error
            /\ inv[i].output[1].response = None
            /\ inv[i].output[1].json = None
            /\ inv[i].steps = <<"decode", "normalize", "invoke">>

\* A handler error reached the host.
C3_Witness ==
    \E i \in Slots :
        /\ inv[i].pc = "done"
        /\ ~inv[i].handlerResult[1].ok
        /\ inv[i].output[1].error = "boom"

StepOrder == <<"decode", "normalize", "invoke", "coerce", "serialize">>

\* C4: the steps of an invocation are an initial part of decode, normalize,
\* handler invocation, coercion, serialization; a poll of the adapter future
\* answers Pending exactly when the handler future did; the response is
\* serialized only in the poll in which the handler future is Ready; an
\* invocation that is pending or was dropped has no response at all.
C4_StepsInOrder ==
    \A i \in Slots :
        /\ Len(inv[i].steps) <= Len(StepOrder)
        /\ inv[i].steps = SubSeq(StepOrder, 1, Len(inv[i].steps))
        /\ inv[i].adapterPoll = "Pending" <=> inv[i].handlerPoll = "Pending"
        /\ (\E k \in 1..Len(inv[i].steps) : inv[i].steps[k] = "serialize") =>
               inv[i].handlerPoll = "Ready" /\ inv[i].pc = "done"
        /\ inv[i].pc \in {"pending", "dropped", "failed", "idle"} =>
               inv[i].output = None
        /\ IsSome(inv[i].output) =>
               inv[i].pc = "done" /\ inv[i].handlerPoll = "Ready"

\* A future was dropped after a Pending poll, and another one was answered.
C4_Witness ==
    \E i, j \in Slots :
        /\ inv[i].pc = "dropped" /\ inv[i].polls > 0 /\ inv[i].output = None
        /\ inv[j].pc = "done" /\ inv[j].steps = StepOrder

\* Whether a text is the base64 text of some bytes: whole groups of four
\* characters of the alphabet, '=' only as the padding of the last group.
IsBase64Text(t) ==
    /\ Len(t) % 4 = 0
    /\ \A k \in 1..Len(t) :
           \/ t[k] \in B64Chars
           \/ t[k] = "=" /\ k > Len(t) - 2 /\ (k = Len(t) \/ t[Len(t)] = "=")

\* C5: an invocation whose payload is not JSON, matches no schema, or has a
\* body flagged base64 that is not base64, ends as a failure: no request was
\* built, the handler was not called, nothing was answered.  A request that
\* was built from a payload with a body never has the Empty body, and has
\* the Binary one when the body was flagged base64.
C5_FailureEndsInvocation ==
    \A i \in Slots :
        LET p == inv[i].payload
            matched == \/ IsSome(p.httpMethod) /\ "ApiGatewayV1" \in p.ctx
                       \/ IsSome(p.ctxHttpMethod) /\ "ApiGatewayV2" \in p.ctx
                       \/ IsSome(p.httpMethod) /\ "Alb" \in p.ctx
            flagged == IsSome(p.body) /\ p.isBase64Encoded = Some(TRUE)
            badBody == flagged /\ ~IsBase64Text(p.body[1])
        IN  inv[i].pc # "idle" =>
                /\ (~p.json \/ ~matched \/ badBody) =>
                       /\ inv[i].pc = "failed"
                       /\ inv[i].error # ""
                       /\ inv[i].request = None
                       /\ inv[i].handlerPoll = "none"
                       /\ inv[i].output = None
                       /\ \A k \in 1..Len(inv[i].steps) : inv[i].steps[k] # "invoke"
                /\ (IsSome(inv[i].request) /\ IsSome(p.body)) =>
                       inv[i].request[1].body.tag # "Empty"
                /\ (IsSome(inv[i].request) /\ flagged) =>
                       inv[i].request[1].body.tag = "Binary"

\* A payload that was decoded, with a body flagged base64 that is not
\* base64, ended the invocation before the handler was called.
C5_Witness ==
    \E i \in Slots :
        /\ inv[i].pc = "failed"
        /\ IsSome(inv[i].event)
        /\ inv[i].payload.isBase64Encoded = Some(TRUE)
        /\ inv[i].payload.body = Some(<<"hello">>)
        /\ inv[i].request = None

\* The method and the path a schema reads.
MethodField(variant, p) ==
    IF variant = "ApiGatewayV2" THEN p.ctxHttpMethod ELSE p.httpMethod

PathField(variant, p) ==
    IF variant = "ApiGatewayV2" THEN p.rawPath ELSE p.path

\* C6 as stated: every request that reaches the handler comes from a payload
\* that has the method and the path of its schema, and carries both.
C6_MethodAndPathRequired ==
    \A i \in Slots :
        IsSome(inv[i].request) =>
            LET m == MethodField(inv[i].event[1], inv[i].payload)
                pa == PathField(inv[i].event[1], inv[i].payload)
            IN  /\ IsSome(m) /\ inv[i].request[1].method = m[1]
                /\ IsSome(pa) /\ UriPath(inv[i].request[1].uri) = pa[1]

\* C6 amended: a payload is decoded only as a schema whose method it has,
\* one that has no method at all is rejected by decoding, and the request
\* carries the method of the payload; the path is optional: a request is
\* built without it too, its uri then has the empty path ("/"), and a path
\* that is present is carried unchanged.
C6_MethodRequiredPathOptional ==
    \A i \in Slots :
        LET p == inv[i].payload
        IN  /\ IsSome(inv[i].event) =>
                   IsSome(MethodField(inv[i].event[1], p))
            /\ (inv[i].pc # "idle" /\ p.httpMethod = None /\ p.ctxHttpMethod = None) =>
                   /\ inv[i].pc = "failed"
                   /\ inv[i].event = None
                   /\ inv[i].request = None
            /\ IsSome(inv[i].request) =>
                   LET m == MethodField(inv[i].event[1], p)
                       pa == PathField(inv[i].event[1], p)
                   IN  /\ inv[i].request[1].method = m[1]
                       /\ UriPath(inv[i].request[1].uri) =
                              (IF IsSome(pa) /\ pa[1] # <<>> THEN pa[1] ELSE <<"/">>)

\* A payload without a path was decoded and its handler called, with the
\* method of the payload.
C6_Witness ==
    \E i \in Slots :
        /\ IsSome(inv[i].request)
        /\ inv[i].event = Some("ApiGatewayV1")
        /\ inv[i].payload.path = None
        /\ inv[i].payload.httpMethod = Some("POST")
        /\ inv[i].request[1].method = "POST"

\* C7 as stated: the uri of an ApiGatewayV1 or Alb request has the query of
\* the multi-valued query map, or of the single-valued one when that is
\* empty, so a payload with a query parameter gives a uri with a query that
\* is not empty; the uri of an ApiGatewayV2 request ends with '?' and the
\* raw query string.
C7_UriCarriesQuery ==
    \A i \in Slots :
        IsSome(inv[i].request) =>
            LET p == inv[i].payload
                uri == inv[i].request[1].uri
                params == IF p.multiValueQueryStringParameters # {}
                          THEN { e \in p.multiValueQueryStringParameters :
                                   Len(e.values) > 0 }
                          ELSE p.queryStringParameters
            IN  IF inv[i].event[1] = "ApiGatewayV2"
                THEN IsSome(p.rawQueryString) => UriQuery(uri) = p.rawQueryString
                ELSE params # {} => IsSome(UriQuery(uri)) /\ UriQuery(uri)[1] # <<>>

\* C8 as stated: the headers of an ApiGatewayV1 or Alb request have, for
\* every name, all the values of the multi-valued map followed by the value
\* of the single-valued map.
C8_HeadersAppended ==
    \A i \in Slots :
        (IsSome(inv[i].request) /\ inv[i].event[1] # "ApiGatewayV2") =>
            LET p == inv[i].payload
            IN  \A name \in HeaderNames(p.multiValueHeaders) \cup HeaderNames(p.headers) :
                    HeaderGetAll(inv[i].request[1].headers, name) =
                        HeaderGetAll(p.multiValueHeaders, name)
                            \o HeaderGetAll(p.headers, name)

\* C9: the query-parameter extension of an ApiGatewayV1 or Alb request is
\* the multi-valued query map when that is not empty, and the single-valued
\* map, every value alone, when it is.
C9_QueryPrefersMulti ==
    \A i \in Slots :
        (IsSome(inv[i].request) /\ inv[i].event[1] # "ApiGatewayV2") =>
            LET p == inv[i].payload
            IN  inv[i].request[1].query_string_parameters =
                    (IF p.multiValueQueryStringParameters # {}
                     THEN p.multiValueQueryStringParameters
                     ELSE { [name |-> e.name, values |-> <<e.value>>] :
                              e \in p.queryStringParameters })

\* single {a: 1} with multi {a: [1, 2]} gave {a: [1, 2]}.
C9_Witness ==
    \E i \in Slots :
        /\ IsSome(inv[i].request)
        /\ inv[i].event[1] \in {"ApiGatewayV1", "Alb"}
        /\ inv[i].payload.queryStringParameters = { [name |-> "a", value |-> <<"1">>] }
        /\ inv[i].payload.multiValueQueryStringParameters # {}
        /\ StrMapGetAll(inv[i].request[1].query_string_parameters, "a")
               = << <<"1">>, <<"2">> >>

\* The header objects written for an ApiGatewayV1 or Alb response, against
\* the headers of the response the handler's value was coerced to: the same
\* names in the same order, all the values in multiValueHeaders, and in
\* headers the last of them (last = TRUE) or the first of them.
HeaderObjectsAgree(i, last) ==
    LET canonical == into_response(inv[i].handlerResult[1].value).headers
        json == inv[i].output[1].json[1]
    IN  /\ Len(json.headers) = Len(canonical)
        /\ Len(json.multiValueHeaders) = Len(canonical)
        /\ \A k \in 1..Len(canonical) :
               /\ json.multiValueHeaders[k] =
                      [name |-> canonical[k].name, values |-> canonical[k].values]
               /\ json.headers[k] =
                      [name |-> canonical[k].name,
                       value |-> IF last
                                 THEN canonical[k].values[Len(canonical[k].values)]
                                 ELSE canonical[k].values[1]]

ProxyAnswered(i) ==
    /\ inv[i].pc = "done"
    /\ inv[i].output[1].ok
    /\ IsSome(inv[i].output[1].json)
    /\ inv[i].event[1] \in {"ApiGatewayV1", "Alb"}

\* C10 as stated: the single-valued map holds the last value of every name.
C10_SingleHoldsLast ==
    \A i \in Slots : ProxyAnswered(i) => HeaderObjectsAgree(i, TRUE)

\* C10 amended: both header maps are built from the headers of the response;
\* for every name the multi-valued map holds all of its values in insertion
\* order and the single-valued map holds the first of those values.
C10_SingleHoldsFirst ==
    \A i \in Slots : ProxyAnswered(i) => HeaderObjectsAgree(i, FALSE)

\* A response with the header multi: a, b was written for ApiGatewayV1.
C10_Witness ==
    \E i \in Slots :
        /\ ProxyAnswered(i)
        /\ inv[i].event[1] = "ApiGatewayV1"
        /\ HeaderGetAll(inv[i].output[1].response[1].multi_value_headers, "multi")
               = << <<"a">>, <<"b">> >>
        /\ inv[i].output[1].json[1].headers[1].value = <<"a">>

\* A finished invocation of the ApiGatewayV2 origin that was answered.
V2Answered(i) ==
    /\ inv[i].pc = "done"
    /\ inv[i].output[1].ok
    /\ inv[i].event[1] = "ApiGatewayV2"

\* What the ApiGatewayV2 response of invocation i does with the headers
\* that are no Set-Cookie, and with the base64 flag: neither header map has
\* a Set-Cookie entry, both have every other header of the coerced response
\* with all of its values, and the flag is there; the JSON object, when the
\* response can be written, has the same and the cookies as a list.
V2HeadersKept(i) ==
    LET canonical == inv[i].coerced[1].headers
        resp == inv[i].output[1].response[1]
        json == inv[i].output[1].json
        others == HeaderNames(canonical) \ {"set-cookie"}
    IN  /\ HeaderNames(resp.headers) = others
        /\ HeaderNames(resp.multi_value_headers) = others
        /\ \A name \in others :
               /\ HeaderGetAll(resp.headers, name) = HeaderGetAll(canonical, name)
               /\ HeaderGetAll(resp.multi_value_headers, name)
                      = HeaderGetAll(canonical, name)
        /\ IsSome(resp.is_base64_encoded)
        /\ IsSome(json) =>
               /\ { json[1].headers[k].name : k \in 1..Len(json[1].headers) } = others
               /\ { json[1].multiValueHeaders[k].name :
                      k \in 1..Len(json[1].multiValueHeaders) } = others
               /\ \A k \in 1..Len(json[1].multiValueHeaders) :
                      json[1].multiValueHeaders[k].values
                          = HeaderGetAll(canonical, json[1].multiValueHeaders[k].name)
               /\ json[1].cookies = Some(resp.cookies)
               /\ IsSome(json[1].isBase64Encoded)

\* C11 as stated: an ApiGatewayV2 response has every Set-Cookie value of the
\* coerced response, in order, in its cookies list, no Set-Cookie entry in
\* either header map, every other header in both maps, and the base64 flag.
C11_AllCookiesMoved ==
    \A i \in Slots :
        V2Answered(i) =>
            /\ inv[i].output[1].response[1].cookies
                   = HeaderGetAll(inv[i].coerced[1].headers, "set-cookie")
            /\ V2HeadersKept(i)

\* C11 amended: the cookies list has one entry for every Set-Cookie value,
\* in order: the value when it is visible ASCII text, the empty string when
\* it is not; the header maps and the flag are as stated.
C11_CookiesMovedAsText ==
    \A i \in Slots :
        V2Answered(i) =>
            LET values == HeaderGetAll(inv[i].coerced[1].headers, "set-cookie")
                cookies == inv[i].output[1].response[1].cookies
            IN  /\ Len(cookies) = Len(values)
                /\ \A k \in 1..Len(values) :
                       cookies[k] =
                           IF \E j \in 1..Len(values[k]) :
                                  values[k][j] \in ControlTokens \cup ObsTextTokens
                           THEN <<>> ELSE values[k]
                /\ V2HeadersKept(i)

\* An ApiGatewayV2 response was written for the headers x: 1 and
\* Set-Cookie: id=<0xE9>, cookie2=b: the cookies are "", cookie2=b and the
\* one header left in both maps is x.
C11_Witness ==
    \E i \in Slots :
        /\ V2Answered(i)
        /\ HeaderGetAll(inv[i].coerced[1].headers, "set-cookie")
               = << <<"id=", "0xE9">>, <<"cookie2=b">> >>
        /\ inv[i].output[1].response[1].cookies = << <<>>, <<"cookie2=b">> >>
        /\ inv[i].output[1].json[1].cookies = Some(<< <<>>, <<"cookie2=b">> >>)
        /\ inv[i].output[1].json[1].multiValueHeaders
               = <<[name |-> "x", values |-> << <<"1">> >>]>>

\* C12: whatever the origin, the body and the base64 flag of the response,
\* and of the JSON object written for it, follow from the tag of the body of
\* the coerced response alone: Empty gives no body and the flag false, Text
\* the text as the body and the flag false, Binary a body that is the base64
\* text of the bytes and the flag true.
C12_BodyAndFlagByTag ==
    \A i \in Slots :
        (inv[i].pc = "done" /\ inv[i].output[1].ok) =>
            LET b == inv[i].coerced[1].body
                resp == inv[i].output[1].response[1]
                json == inv[i].output[1].json
            IN  /\ resp.is_base64_encoded = Some(b.tag = "Binary")
                /\ resp.body = IF b.tag = "Empty" THEN None ELSE Some(b)
                /\ IsSome(json) =>
                       /\ json[1].isBase64Encoded = Some(b.tag = "Binary")
                       /\ b.tag = "Empty" => json[1].body = None
                       /\ b.tag = "Text" => json[1].body = Some(b.text)
                       /\ b.tag = "Binary" =>
                              /\ IsSome(json[1].body)
                              /\ B64Decode(json[1].body[1])
                                     = [ok |-> TRUE, bytes |-> b.bytes]

\* The bytes of "foo" were answered to an Alb invocation as the body "Zm9v"
\* with the flag true.
C12_Witness ==
    \E i \in Slots :
        /\ inv[i].pc = "done" /\ inv[i].output[1].ok
        /\ inv[i].event[1] = "Alb"
        /\ inv[i].coerced[1].body = BinaryBody(<<102, 111, 111>>)
        /\ inv[i].output[1].json[1].body = Some(<<"Z", "m", "9", "v">>)
        /\ inv[i].output[1].json[1].isBase64Encoded = Some(TRUE)

\* The headers of the request of invocation i are those of the payload with
\* `added` appended to the values of Cookie: every header of the payload is
\* there with its values, in front of what was added.
CookieValuesAdded(i, added) ==
    LET p == inv[i].payload
        headers == inv[i].request[1].headers
    IN  /\ HeaderGetAll(headers, "cookie") = HeaderGetAll(p.headers, "cookie") \o added
        /\ HeaderNames(headers) =
               HeaderNames(p.headers) \cup (IF added = <<>> THEN {} ELSE {"cookie"})
        /\ \A name \in HeaderNames(p.headers) \ {"cookie"} :
               HeaderGetAll(headers, name) = HeaderGetAll(p.headers, name)

\* An ApiGatewayV2 invocation whose payload has a cookie list and whose
\* handler was called.
V2CalledWithCookies(i) ==
    /\ Called(i)
    /\ inv[i].event[1] = "ApiGatewayV2"
    /\ IsSome(inv[i].payload.cookies)

\* C13 as stated: the request of an ApiGatewayV2 payload with a cookie list
\* has one Cookie value more than the payload's headers, the cookies joined
\* with ';' in list order, and every header of the payload.
C13_CookiesJoined ==
    \A i \in Slots :
        V2CalledWithCookies(i) =>
            CookieValuesAdded(i, <<Join(inv[i].payload.cookies[1], ";")>>)

\* C13 amended: the joined cookies are added as one more Cookie value when
\* they are a valid header value; when they are not (a control character in
\* a cookie), no Cookie value is added and the headers are the payload's.
C13_ValidCookiesJoined ==
    \A i \in Slots :
        V2CalledWithCookies(i) =>
            LET joined == Join(inv[i].payload.cookies[1], ";")
            IN  IF \E k \in 1..Len(joined) : joined[k] \in ControlTokens
                THEN inv[i].request[1].headers = inv[i].payload.headers
                ELSE CookieValuesAdded(i, <<joined>>)

\* The cookies x=1, y=2 of a payload with the headers Cookie: z=0 and x: b
\* reached the handler as the second Cookie value x=1;y=2, after z=0.
C13_Witness ==
    \E i \in Slots :
        /\ V2CalledWithCookies(i)
        /\ inv[i].payload.cookies = Some(<< <<"x=1">>, <<"y=2">> >>)
        /\ HeaderGetAll(inv[i].request[1].headers, "cookie")
               = << <<"z=0">>, <<"x=1", ";", "y=2">> >>
        /\ HeaderGetAll(inv[i].request[1].headers, "x") = << <<"b">> >>

\* C14: the adapter of proxy_handler() looks for no origin.  A payload
\* reaches the handler only as an ApiGatewayProxyRequest (one that lacks its
\* fields is refused, even when it has those of another origin); the origin
\* held is ApiGatewayV1 and the request is the one into_proxy_request
\* builds; a response is written in the ApiGatewayV1 shape: no cookies list,
\* no status description, Set-Cookie headers left in the header maps.
C14_ProxyAlwaysV1 ==
    \A i \in Slots :
        LET p == inv[i].payload
            v1 == p.json /\ IsSome(p.httpMethod) /\ "ApiGatewayV1" \in p.ctx
        IN  /\ (inv[i].pc # "idle" /\ ~v1) => inv[i].pc = "failed" /\ inv[i].request = None
            /\ Called(i) =>
                   /\ v1
                   /\ inv[i].origin = Some("ApiGatewayV1")
                   /\ inv[i].request = Some(into_proxy_request(p).request)
                   /\ inv[i].request[1].request_context = "ApiGatewayV1"
            /\ (inv[i].pc = "done" /\ inv[i].output[1].ok) =>
                   LET resp == inv[i].output[1].response[1]
                   IN  /\ resp.variant = "ApiGatewayV1"
                       /\ resp.cookies = <<>>
                       /\ resp.status_description = None
                       /\ resp.headers = inv[i].coerced[1].headers
                       /\ resp.multi_value_headers = inv[i].coerced[1].headers
                       /\ IsSome(inv[i].output[1].json) =>
                              /\ inv[i].output[1].json[1].cookies = None
                              /\ inv[i].output[1].json[1].statusDescription = None

\* A payload with the fields of all three origins, answered with Set-Cookie
\* headers: it was handled as ApiGatewayV1 and the cookies stayed headers.
C14_Witness ==
    \E i \in Slots :
        /\ inv[i].pc = "done" /\ inv[i].output[1].ok
        /\ inv[i].payload.ctx = {"ApiGatewayV1", "ApiGatewayV2", "Alb"}
        /\ IsSome(inv[i].payload.ctxHttpMethod)
        /\ inv[i].origin = Some("ApiGatewayV1")
        /\ HeaderGetAll(inv[i].output[1].response[1].headers, "set-cookie")
               = << <<"cookie1=a">>, <<"cookie2=b">> >>
        /\ inv[i].output[1].json[1].cookies = None

\* C15: a response for the Alb origin has a status description: the digits
\* of the status code, one space, and the canonical reason phrase of the
\* code, nothing after the space when the code has none ("200 OK",
\* "404 Not Found", "599 "); a response for ApiGatewayV1 or ApiGatewayV2 has
\* no status description.
C15_StatusDescription ==
    \A i \in Slots :
        (inv[i].pc = "done" /\ inv[i].output[1].ok) =>
            LET status == inv[i].coerced[1].status
                resp == inv[i].output[1].response[1]
                json == inv[i].output[1].json
                phrase == CASE status = 200 -> <<"2", "0", "0", " ", "OK">>
                            [] status = 404 -> <<"4", "0", "4", " ", "Not Found">>
                            [] status = 599 -> <<"5", "9", "9", " ">>
            IN  /\ inv[i].event[1] = "Alb" =>
                       /\ resp.status_description = Some(phrase)
                       /\ IsSome(json) => json[1].statusDescription = Some(phrase)
                /\ inv[i].event[1] # "Alb" =>
                       /\ resp.status_description = None
                       /\ IsSome(json) => json[1].statusDescription = None

\* An Alb invocation was answered with the status 404 and "404 Not Found".
C15_Witness ==
    \E i \in Slots :
        /\ inv[i].pc = "done" /\ inv[i].output[1].ok
        /\ inv[i].event[1] = "Alb"
        /\ inv[i].output[1].json[1].statusCode = 404
        /\ inv[i].output[1].json[1].statusDescription
               = Some(<<"4", "0", "4", " ", "Not Found">>)

\* C16: a handler value is coerced to a response as follows: a full response
\* keeps its status, its headers and its body; a text gives the status 200,
\* no headers and a Text body of that text; a JSON value gives the status
\* 200, the one header Content-Type: application/json and a Text body of
\* its JSON encoding ({"hello":"lambda"} for the object hello: lambda).
C16_Coercion ==
    \A i \in Slots :
        (inv[i].pc = "done" /\ inv[i].handlerResult[1].ok) =>
            LET value == inv[i].handlerResult[1].value
                coerced == inv[i].coerced[1]
            IN  /\ value.kind = "Response" =>
                       /\ coerced.status = value.status
                       /\ coerced.headers = value.headers
                       /\ coerced.body = value.body
                /\ value.kind = "Text" =>
                       /\ coerced.status = 200
                       /\ coerced.headers = <<>>
                       /\ coerced.body = [tag |-> "Text", text |-> value.text,
                                          bytes |-> <<>>]
                /\ value.kind = "Json" =>
                       /\ coerced.status = 200
                       /\ coerced.headers =
                              <<[name |-> "content-type",
                                 values |-> << <<"application/json">> >>]>>
                       /\ coerced.body.tag = "Text"
                       /\ value.json.members = << <<"hello", "lambda">> >> =>
                              coerced.body.text =
                                  <<"{", "\"", "hello", "\"", ":",
                                    "\"", "lambda", "\"", "}">>

\* The JSON object hello: lambda was answered as the text {"hello":"lambda"}
\* with the header Content-Type: application/json.
C16_Witness ==
    \E i \in Slots :
        /\ inv[i].pc = "done" /\ inv[i].output[1].ok
        /\ inv[i].handlerResult[1].value.kind = "Json"
        /\ inv[i].output[1].json[1].body
               = Some(<<"{", "\"", "hello", "\"", ":", "\"", "lambda", "\"", "}">>)
        /\ inv[i].output[1].json[1].headers
               = <<[name |-> "content-type", value |-> <<"application/json">>]>>

\* An item the macro accepts: async fn main with two typed arguments.
MacroItemOk(item) ==
    /\ item.name = "main"
    /\ item.asyncness
    /\ item.inputs = <<"Typed", "Typed">>

\* C17: the output of #[lambda] on an accepted item wraps the body with
\* handler() for the arguments (http), with proxy_handler() for the
\* arguments (http::invoke) and with handler_fn() for an argument list that
\* names neither; on an item that is not named main, is not async or does
\* not take two arguments the output is a compile error.
C17_WrapperByArguments ==
    expansion.out # None =>
        LET out == expansion.out[1]
            args == expansion.args
            item == expansion.item
            named(path) == \E k \in 1..Len(args) :
                               args[k].kind = "Path" /\ args[k].segments = path
        IN  /\ (MacroItemOk(item) /\ args = <<PathArg(<<"http">>)>>) =>
                   out = [error |-> FALSE, message |-> "", wrapper |-> "handler"]
            /\ (MacroItemOk(item) /\ args = <<PathArg(<<"http", "invoke">>)>>) =>
                   out = [error |-> FALSE, message |-> "", wrapper |-> "proxy_handler"]
            /\ (MacroItemOk(item) /\ ~named(<<"http">>) /\ ~named(<<"http", "invoke">>)) =>
                   out = [error |-> FALSE, message |-> "", wrapper |-> "handler_fn"]
            /\ (item.name # "main" \/ ~item.asyncness \/ Len(item.inputs) # 2) =>
                   out.error

\* C18: with the stateful handler, every invocation that was answered has as
\* its body the digits of the value its fetch-and-add gave it; the values
\* given so far are 0 .. n-1 for the n invocations that read the counter,
\* no two of them the same, and the counter is n: when all N invocations
\* are finished their bodies are the values 0 .. N-1 and the counter is N.
C18_CounterValuesExact ==
    LET Read == { i \in Slots : IsSome(inv[i].val) }
        Done == { i \in Slots : inv[i].pc = "done" }
        digits == <<"0", "1", "2", "3", "4", "5", "6", "7", "8", "9">>
    IN  /\ Done \subseteq Read
        /\ \A i \in Done :
               /\ inv[i].output[1].ok
               /\ inv[i].val[1] < 10
               /\ inv[i].output[1].response[1].body
                      = Some([tag |-> "Text", text |-> <<digits[inv[i].val[1] + 1]>>,
                              bytes |-> <<>>])
               /\ inv[i].output[1].json[1].body = Some(<<digits[inv[i].val[1] + 1]>>)
        /\ \A i, j \in Read : i # j => inv[i].val # inv[j].val
        /\ { inv[i].val[1] : i \in Read } = 0..(Cardinality(Read) - 1)
        /\ counter = Cardinality(Read)
        /\ Done = Slots => counter = Cardinality(Slots)

\* Two invocations whose futures ran interleaved: the one that read the
\* counter second (1) is answered, with the body "1", while the one that
\* read it first (0) is not yet; the counter is 2.
C18_Witness ==
    \E i, j \in Slots :
        /\ i # j
        /\ inv[i].pc = "pending" /\ inv[i].val = Some(0)
        /\ inv[j].pc = "done" /\ inv[j].val = Some(1)
        /\ inv[j].output[1].json[1].body = Some(<<"1">>)
        /\ counter = 2

=============================================================================
